---- MODULE Spec2Model ----
(***************************************************************************)
(* Product-research tracker (src/src/App.jsx): the App component's state,  *)
(* the realtime subscription to the per-user "products" collection, the    *)
(* one-shot migration of the local fallback cache, and the handlers that   *)
(* write to the remote collection.                                         *)
(*                                                                         *)
(* Ids (generateId's 9-character strings, document keys, link ids) are     *)
(* numbered 1..MaxId; their numeric order stands for the order in which a  *)
(* query without orderBy returns documents (ascending document key).       *)
(* A document is a function from field names to values; a field that is    *)
(* missing from a document is missing from the function's domain.          *)
(***************************************************************************)
EXTENDS Integers, Sequences, FiniteSets, TLC

\* ------------------------------------------------------------ bounds
MaxId == 2
MaxLinkId == 3
MaxNow == 2
MaxOps == 2
MaxPending == 2
MaxSortDocs == 3

\* ------------------------------------------------------------ values
Users == {"u1", "u2"}
FirstUser == "u1"
NoUser == "null"
ProductIds == 1..MaxId
LinkIds == 1..MaxLinkId
\* selectedId's initial value null; also the template's id "" (never a key)
NoId == 0

INITIAL_COMPETITOR ==
    [brand |-> "", adLink |-> "", storeLink |-> "", adsCount |-> "", traffic |-> ""]

NEW_PRODUCT_TEMPLATE ==
    [id |-> NoId, name |-> "", status |-> "Pending", cogs |-> "", price |-> "",
     valueProp |-> "", supplierLink |-> "", targetMarket |-> "",
     hasContent |-> FALSE,
     competitors |-> <<INITIAL_COMPETITOR, INITIAL_COMPETITOR, INITIAL_COMPETITOR>>,
     otherLinks |-> <<>>, personalNotes |-> "", internalNotes |-> ""]

\* { ...obj, [field]: value }
WithField(obj, field, value) ==
    [f \in DOMAIN obj \cup {field} |-> IF f = field THEN value ELSE obj[f]]

\* ------------------------------------------------------------ state
VARIABLES
    user,          \* App state: null or the signed-in user's uid
    authChecking,  \* App state
    loading,       \* App state
    products,      \* App state: sequence of product records
    selectedId,    \* App state
    searchQuery,   \* App state: the text of the search box
    subs,          \* uids with an active onSnapshot listener
    remote,        \* document store: uid -> (document key -> document)
    localStorage,  \* the LOCAL_STORAGE_KEY slot
    writes,        \* writes handed to the store and not yet settled (in order)
    lastSnapshot,  \* history: the last snapshot a listener delivered
    migration,     \* history: the migration the snapshot callback started, if any
    nOps           \* handler calls made so far

vars == <<user, authChecking, loading, products, selectedId, searchQuery, subs,
          remote, localStorage, writes, lastSnapshot, migration, nOps>>

\* ------------------------------------------------------------ local fallback cache
\* A record saved by the earlier, local-only version: no createdAt.
CachedLinks ==
    << [id |-> 3, title |-> "Ads", url |-> "a.io"],
       [id |-> 1, title |-> "", url |-> ""],
       [id |-> 2, title |-> "Shop", url |-> ""] >>

CachedProduct(id, name, links) ==
    [NEW_PRODUCT_TEMPLATE EXCEPT !.id = id, !.name = name, !.otherLinks = links]

\* getItem() yields null, "" or a JSON array; JSON.parse turns the array into
\* the list of records (the records hold strings, booleans and arrays only).
NoItem == [kind |-> "null", data |-> <<>>]
CacheInputs ==
    { NoItem,
      [kind |-> "empty", data |-> <<>>],
      [kind |-> "json", data |-> <<>>],
      [kind |-> "json",
       data |-> <<CachedProduct(2, "Gadget", <<>>), CachedProduct(1, "Widget", CachedLinks)>>] }

\* if (savedLocal): null and "" are falsy, every other string is truthy
Truthy(item) == item.kind = "json"

\* ------------------------------------------------------------ document store
EmptyCollection == <<>>

\* setDoc(ref, data): create or overwrite
SetDoc(coll, key, data) ==
    [k \in DOMAIN coll \cup {key} |-> IF k = key THEN data ELSE coll[k]]

\* setDoc(ref, data, { merge: true }): create, or replace only the payload's fields
MergeFields(old, data) ==
    [f \in DOMAIN old \cup DOMAIN data |-> IF f \in DOMAIN data THEN data[f] ELSE old[f]]

\* (variant: the merge option is left out)
SetDocMerge_Overwrite(coll, key, data) == SetDoc(coll, key, data)

SetDocMerge(coll, key, data) ==
    IF key \in DOMAIN coll
    THEN [coll EXCEPT ![key] = MergeFields(coll[key], data)]
    ELSE SetDoc(coll, key, data)

\* deleteDoc(ref)
DeleteDoc(coll, key) == [k \in DOMAIN coll \ {key} |-> coll[k]]

ApplyWrite(coll, w) ==
    CASE w.kind = "set" -> SetDoc(coll, w.key, w.data)
      [] w.kind = "merge" -> SetDocMerge(coll, w.key, w.data)
      [] w.kind = "delete" -> DeleteDoc(coll, w.key)

\* The documents of a query snapshot, in the order forEach visits them.
RECURSIVE KeysInOrder(_)
KeysInOrder(S) ==
    IF S = {} THEN <<>>
    ELSE LET m == CHOOSE k \in S : \A j \in S : k <= j
         IN <<m>> \o KeysInOrder(S \ {m})

SnapshotDocs(coll) ==
    LET ks == KeysInOrder(DOMAIN coll)
    IN [i \in 1..Len(ks) |-> [key |-> ks[i], data |-> coll[ks[i]]]]

\* ------------------------------------------------------------ text
\* The search box's text and the texts the filter compares it with are
\* sequences of characters (the other texts of the model are never looked into).
UpperCaseLetters ==
    <<"A", "B", "C", "D", "E", "F", "G", "H", "I", "J", "K", "L", "M",
      "N", "O", "P", "Q", "R", "S", "T", "U", "V", "W", "X", "Y", "Z">>
LowerCaseLetters ==
    <<"a", "b", "c", "d", "e", "f", "g", "h", "i", "j", "k", "l", "m",
      "n", "o", "p", "q", "r", "s", "t", "u", "v", "w", "x", "y", "z">>

\* String.prototype.toLowerCase, on the letters A-Z
CharToLowerCase(c) ==
    IF \E i \in DOMAIN UpperCaseLetters : UpperCaseLetters[i] = c
    THEN LowerCaseLetters[CHOOSE i \in DOMAIN UpperCaseLetters : UpperCaseLetters[i] = c]
    ELSE c

toLowerCase(text) == [i \in 1..Len(text) |-> CharToLowerCase(text[i])]

\* String.prototype.includes
includes(text, part) ==
    \E i \in 0..(Len(text) - Len(part)) : SubSeq(text, i + 1, i + Len(part)) = part

\* ------------------------------------------------------------ profitability
\* The amounts typed are texts too. parseFloat reads an optional sign and the
\* digits that follow and stops at the first other character (whole numbers
\* only here); without a digit to read it yields NaN.
Digits == <<"0", "1", "2", "3", "4", "5", "6", "7", "8", "9">>

IsDigit(c) == \E i \in DOMAIN Digits : Digits[i] = c

DigitValue(c) == (CHOOSE i \in DOMAIN Digits : Digits[i] = c) - 1

\* the value of the digits that start text, after acc
RECURSIVE ReadDigits(_, _)
ReadDigits(text, acc) ==
    IF text = <<>> \/ ~IsDigit(Head(text)) THEN acc
    ELSE ReadDigits(Tail(text), 10 * acc + DigitValue(Head(text)))

NaN == [nan |-> TRUE, value |-> 0]

parseFloat(text) ==
    LET signed == text # <<>> /\ Head(text) \in {"-", "+"}
        rest == IF signed THEN Tail(text) ELSE text
    IN IF rest = <<>> \/ ~IsDigit(Head(rest)) THEN NaN
       ELSE [nan |-> FALSE,
             value |-> IF signed /\ Head(text) = "-"
                       THEN 0 - ReadDigits(rest, 0) ELSE ReadDigits(rest, 0)]

\* (variant: the digits after the second are cut off)
ToFixed2_Truncates(p, margin) ==
    IF p >= 0 THEN (100 * p) \div margin
    ELSE 0 - ((100 * (0 - p)) \div margin)

\* (p / margin).toFixed(2) for margin > 0, as the number of hundredths that the
\* text spells: the nearest one, the larger in size of two equally near (for
\* whole amounts with a margin below 40 such a quotient is exact in binary).
ToFixed2(p, margin) ==
    IF p >= 0 THEN (200 * p + margin) \div (2 * margin)
    ELSE 0 - ((200 * (0 - p) + margin) \div (2 * margin))

\* What calculateRoas returns: null, the number 0, or toFixed's text.
RoasNull == [kind |-> "null", hundredths |-> 0]
RoasZero == [kind |-> "number", hundredths |-> 0]
RoasText(n) == [kind |-> "string", hundredths |-> n]

calculateRoas(price, cogs) ==
    LET p == parseFloat(price)
        c == parseFloat(cogs)
    IN IF p.nan \/ c.nan THEN RoasNull
       ELSE LET margin == p.value - c.value
            IN IF margin <= 0 THEN RoasZero
               ELSE RoasText(ToFixed2(p.value, margin))

\* roas ? ... : ...  (null and 0 are falsy, toFixed's text never is)
RoasTruthy(roas) == roas.kind = "string"

\* parseFloat(roas) <= 1.5 && parseFloat(roas) > 0 ? emerald : rose
RoasColour(roas) ==
    IF roas.hundredths <= 150 /\ roas.hundredths > 0 THEN "emerald" ELSE "rose"

\* The ROAS cell of a row of the list.
RoasCell(product) ==
    LET roas == calculateRoas(product.price, product.cogs)
    IN IF RoasTruthy(roas)
       THEN [colour |-> RoasColour(roas),
             shown |-> IF roas.hundredths <= 0 THEN "Loss" ELSE "ratio",
             hundredths |-> roas.hundredths]
       ELSE [colour |-> "none", shown |-> "-", hundredths |-> 0]

\* Break-Even ROAS in the panel.
RoasPanel(product) ==
    LET roas == calculateRoas(product.price, product.cogs)
    IN IF RoasTruthy(roas)
       THEN [colour |-> RoasColour(roas), shown |-> "ratio",
             hundredths |-> roas.hundredths]
       ELSE [colour |-> "none", shown |-> "--", hundredths |-> 0]

\* ------------------------------------------------------------ render
\* products.find((p) => p.id === id): the position of the first match, 0 if none
RECURSIVE FindIndexFrom(_, _, _)
FindIndexFrom(prods, id, i) ==
    IF i > Len(prods) THEN 0
    ELSE IF prods[i].id = id THEN i
    ELSE FindIndexFrom(prods, id, i + 1)

FindIndex(prods, id) == FindIndexFrom(prods, id, 1)

\* The three early returns of App's render leave the list and the panel.
MainViewShown(u, ac, ld) == ~ac /\ u # NoUser /\ ~ld

\* A render that throws unmounts App (there is no error boundary): the filter
\* reads p.name.toLowerCase() of every product and, where the name does not
\* hold the query, p.status.toLowerCase(); the panel reads
\* selectedProduct.competitors.map.
RenderThrows(u, ac, ld, prods, sel, query) ==
    \/ \E i \in 1..Len(prods) : "name" \notin DOMAIN prods[i]
    \/ /\ query # <<>>
       /\ \E i \in 1..Len(prods) :
             /\ "status" \notin DOMAIN prods[i]
             /\ ~includes(toLowerCase(prods[i].name), toLowerCase(query))
    \/ /\ MainViewShown(u, ac, ld)
       /\ FindIndex(prods, sel) # 0
       /\ "competitors" \notin DOMAIN prods[FindIndex(prods, sel)]

Unmounted == RenderThrows(user, authChecking, loading, products, selectedId, searchQuery)

\* Unmounting runs the effects' cleanups: the listener is cancelled.
AfterRender(s, u, ac, ld, prods, sel, query) ==
    IF RenderThrows(u, ac, ld, prods, sel, query) THEN {} ELSE s

\* (variant: the texts are compared as typed)
FilterMatches_CaseSensitive(p, query) ==
    \/ includes(p.name, query)
    \/ includes(p.status, query)

\* (p) => p.name.toLowerCase().includes(searchQuery.toLowerCase()) ||
\*        p.status.toLowerCase().includes(searchQuery.toLowerCase())
FilterMatches(p, query) ==
    \/ includes(toLowerCase(p.name), toLowerCase(query))
    \/ includes(toLowerCase(p.status), toLowerCase(query))

\* (variant: the matches are collected last first)
RECURSIVE Filter_Reversed(_, _)
Filter_Reversed(prods, query) ==
    IF prods = <<>> THEN <<>>
    ELSE Filter_Reversed(Tail(prods), query)
            \o (IF FilterMatches(Head(prods), query) THEN <<Head(prods)>> ELSE <<>>)

\* products.filter(...)
RECURSIVE Filter(_, _)
Filter(prods, query) ==
    IF prods = <<>> THEN <<>>
    ELSE (IF FilterMatches(Head(prods), query) THEN <<Head(prods)>> ELSE <<>>)
            \o Filter(Tail(prods), query)

\* useMemo(() => products.filter(...), [products, searchQuery])
filteredProducts == Filter(products, searchQuery)

\* ------------------------------------------------------------ sync engine
\* items.push({ ...doc.data(), id: doc.id })
MapDoc(d) == WithField(d.data, "id", d.key)

MapDocs(docs) == [i \in 1..Len(docs) |-> MapDoc(docs[i])]

\* (p.createdAt || 0)
CreatedAtOrZero(p) ==
    IF "createdAt" \in DOMAIN p THEN p.createdAt ELSE 0

\* (variant: the comparator's operands are swapped)
RECURSIVE InsertItem_Ascending(_, _)
InsertItem_Ascending(x, s) ==
    IF s = <<>> THEN <<x>>
    ELSE IF CreatedAtOrZero(s[Len(s)]) <= CreatedAtOrZero(x)
         THEN Append(s, x)
         ELSE Append(InsertItem_Ascending(x, SubSeq(s, 1, Len(s) - 1)), s[Len(s)])

\* items.sort((a, b) => (b.createdAt || 0) - (a.createdAt || 0)); the sort is stable
RECURSIVE InsertItem(_, _)
InsertItem(x, s) ==
    IF s = <<>> THEN <<x>>
    ELSE IF CreatedAtOrZero(s[Len(s)]) >= CreatedAtOrZero(x)
         THEN Append(s, x)
         ELSE Append(InsertItem(x, SubSeq(s, 1, Len(s) - 1)), s[Len(s)])

RECURSIVE SortItems(_)
SortItems(s) ==
    IF s = <<>> THEN <<>>
    ELSE InsertItem(s[Len(s)], SortItems(SubSeq(s, 1, Len(s) - 1)))

\* (variant: the records are written under their position in the list)
MigrationWrites_ByPosition(uid, localData) ==
    [i \in 1..Len(localData) |->
        [uid |-> uid, key |-> i, kind |-> "set",
         data |-> localData[i], op |-> "migrate"]]

\* localData.forEach((prod) => setDoc(doc(..., user.uid, "products", prod.id), prod))
MigrationWrites(uid, localData) ==
    [i \in 1..Len(localData) |->
        [uid |-> uid, key |-> localData[i].id, kind |-> "set",
         data |-> localData[i], op |-> "migrate"]]

\* (variant: the cache is migrated whatever the snapshot holds)
OnSnapshot_AlwaysMigrate(uid) ==
    /\ ~Unmounted
    /\ uid \in subs
    /\ LET docs == SnapshotDocs(remote[uid])
           items == SortItems(MapDocs(docs))
       IN /\ products' = items
          /\ loading' = FALSE
          /\ lastSnapshot' = [received |-> TRUE, uid |-> uid, docs |-> docs]
          /\ IF Truthy(localStorage)
             THEN /\ writes' = writes \o MigrationWrites(uid, localStorage.data)
                  /\ localStorage' = NoItem
                  /\ migration' = [done |-> TRUE, uid |-> uid,
                                    records |-> localStorage.data]
             ELSE UNCHANGED <<writes, localStorage, migration>>
          /\ subs' = AfterRender(subs, user, authChecking, FALSE, items, selectedId, searchQuery)
    /\ UNCHANGED <<user, authChecking, searchQuery, selectedId, remote, nOps>>

\* The listener's success callback, for the listener of user uid.
OnSnapshot(uid) ==
    /\ ~Unmounted
    /\ uid \in subs
    /\ LET docs == SnapshotDocs(remote[uid])
           items == SortItems(MapDocs(docs))
       IN /\ products' = items
          /\ loading' = FALSE
          /\ lastSnapshot' = [received |-> TRUE, uid |-> uid, docs |-> docs]
          /\ IF Len(items) = 0 /\ Truthy(localStorage)
             THEN /\ writes' = writes \o MigrationWrites(uid, localStorage.data)
                  /\ localStorage' = NoItem
                  /\ migration' = [done |-> TRUE, uid |-> uid,
                                    records |-> localStorage.data]
             ELSE UNCHANGED <<writes, localStorage, migration>>
          /\ subs' = AfterRender(subs, user, authChecking, FALSE, items, selectedId, searchQuery)
    /\ UNCHANGED <<user, authChecking, searchQuery, selectedId, remote, nOps>>

\* (variant: the error callback empties the list)
OnSnapshotError_ClearsList(uid) ==
    /\ ~Unmounted
    /\ uid \in subs
    /\ loading' = FALSE
    /\ products' = <<>>
    /\ subs' = AfterRender(subs \ {uid}, user, authChecking, FALSE, <<>>, selectedId, searchQuery)
    /\ UNCHANGED <<user, authChecking, searchQuery, selectedId, remote, localStorage,
                   writes, lastSnapshot, migration, nOps>>

\* The listener's error callback; the store ends a listener that failed.
OnSnapshotError(uid) ==
    /\ ~Unmounted
    /\ uid \in subs
    /\ loading' = FALSE
    /\ subs' = AfterRender(subs \ {uid}, user, authChecking, FALSE, products, selectedId, searchQuery)
    /\ UNCHANGED <<user, authChecking, searchQuery, products, selectedId, remote, localStorage,
                   writes, lastSnapshot, migration, nOps>>

\* ------------------------------------------------------------ session
\* return () => unsubscribe(), of the effect run for prevUser
EffectCleanup(s, prevUser) ==
    IF prevUser = NoUser THEN s ELSE s \ {prevUser}

\* if (!user) return; const unsubscribe = onSnapshot(...)
EffectSetup(s, newUser) ==
    IF newUser = NoUser THEN s ELSE s \cup {newUser}

\* (variant: the effect subscribes without its cleanup having run)
SyncEffect_NoCleanup(s, prevUser, newUser) ==
    IF newUser = prevUser THEN s ELSE EffectSetup(s, newUser)

\* The [user] effect of the render that follows setUser: cleanup, then setup.
SyncEffect(s, prevUser, newUser) ==
    IF newUser = prevUser THEN s
    ELSE EffectSetup(EffectCleanup(s, prevUser), newUser)

\* onAuthStateChanged's callback: the first call reports the restored session,
\* later calls a sign-in or a sign-out.
AuthStateChanged(currentUser) ==
    /\ ~Unmounted
    /\ authChecking \/ currentUser # user
    /\ user' = currentUser
    /\ authChecking' = FALSE
    /\ subs' = AfterRender(SyncEffect(subs, user, currentUser),
                            currentUser, FALSE, loading, products, selectedId, searchQuery)
    /\ UNCHANGED <<loading, products, selectedId, searchQuery, remote, localStorage, writes,
                   lastSnapshot, migration, nOps>>

\* ------------------------------------------------------------ mutation gateway
\* const generateId = () => Math.random().toString(36).substr(2, 9): any id
GeneratedIds(ids) == ids

\* What the form controls pass to handleUpdateProduct and to the competitor and
\* link handlers (a few of the fields, one typed value each).
FieldInputs == { <<"name", "Gadget">>, <<"status", "Approved">> }
CompetitorFieldInputs == { <<"brand", "Acme">>, <<"traffic", "9k">> }
LinkFieldInputs == { <<"title", "Docs">>, <<"url", "x.io">> }

\* A handler is called from the list and the panel (or, to exercise its
\* if (!user) return, with nobody signed in).
CanCall ==
    /\ ~Unmounted
    /\ nOps < MaxOps
    /\ Len(writes) < MaxPending
    /\ (user = NoUser \/ MainViewShown(user, authChecking, loading))

selectedProduct == FindIndex(products, selectedId)

PanelShown ==
    MainViewShown(user, authChecking, loading) /\ selectedProduct # 0

NoStateChange ==
    UNCHANGED <<user, authChecking, searchQuery, loading, products, selectedId, subs, remote,
                localStorage, writes, lastSnapshot, migration>>

AppUnchanged ==
    UNCHANGED <<user, authChecking, searchQuery, loading, products, selectedId, subs, remote,
                localStorage, lastSnapshot, migration>>

\* { ...NEW_PRODUCT_TEMPLATE, id: newId, createdAt: Date.now() }
NewProduct(newId, t) ==
    WithField(WithField(NEW_PRODUCT_TEMPLATE, "id", newId), "createdAt", t)

CreateWrite(uid, newId, t) ==
    [uid |-> uid, key |-> newId, kind |-> "set", data |-> NewProduct(newId, t),
     op |-> "create"]

\* (variant: the new id is selected before the write has settled)
handleAddProduct_SelectsAtOnce(newId, t) ==
    /\ CanCall
    /\ nOps' = nOps + 1
    /\ IF user = NoUser THEN NoStateChange
       ELSE /\ writes' = Append(writes, CreateWrite(user, newId, t))
            /\ selectedId' = newId
            /\ UNCHANGED <<user, authChecking, searchQuery, loading, products, subs, remote,
                           localStorage, lastSnapshot, migration>>

\* t is what Date.now() returns (the wall clock: it may be set back)
handleAddProduct(newId, t) ==
    /\ CanCall
    /\ nOps' = nOps + 1
    /\ IF user = NoUser THEN NoStateChange
       ELSE /\ writes' = Append(writes, CreateWrite(user, newId, t))
            /\ AppUnchanged

\* setDoc(productRef, { [field]: value }, { merge: true })
UpdateWrite(uid, id, field, value, op) ==
    [uid |-> uid, key |-> id, kind |-> "merge", data |-> [f \in {field} |-> value],
     op |-> op]

\* (variant: the write is issued without looking at the session)
UpdateProduct_NoSessionCheck(id, field, value, op) ==
    /\ writes' = Append(writes, UpdateWrite(user, id, field, value, op))
    /\ AppUnchanged

\* handleUpdateProduct's body, also run by the competitor and link handlers
UpdateProduct(id, field, value, op) ==
    IF user = NoUser THEN NoStateChange
    ELSE /\ writes' = Append(writes, UpdateWrite(user, id, field, value, op))
         /\ AppUnchanged

handleUpdateProduct(id, field, value) ==
    /\ CanCall
    /\ user # NoUser => (PanelShown /\ id = selectedId)
    /\ nOps' = nOps + 1
    /\ UpdateProduct(id, field, value, "updateField")

\* (variant: the element is rebuilt from the empty competitor)
NewCompetitors_FromBlank(competitors, compIndex, field, value) ==
    [competitors EXCEPT ![compIndex + 1] = WithField(INITIAL_COMPETITOR, field, value)]

\* newCompetitors = [...product.competitors];
\* newCompetitors[compIndex] = { ...newCompetitors[compIndex], [field]: value }
\* (position compIndex + 1 of the sequence)
NewCompetitors(competitors, compIndex, field, value) ==
    [competitors EXCEPT ![compIndex + 1] = WithField(@, field, value)]

handleUpdateCompetitor(productId, compIndex, field, value) ==
    /\ CanCall
    /\ user # NoUser =>
          /\ PanelShown /\ productId = selectedId
          /\ compIndex + 1 \in DOMAIN products[selectedProduct].competitors
    /\ nOps' = nOps + 1
    /\ IF user = NoUser \/ FindIndex(products, productId) = 0 THEN NoStateChange
       ELSE UpdateProduct(productId, "competitors",
                NewCompetitors(products[FindIndex(products, productId)].competitors,
                               compIndex, field, value),
                "updateCompetitor")

\* (product.otherLinks || [])
OtherLinksOrEmpty(product) ==
    IF "otherLinks" \in DOMAIN product THEN product.otherLinks ELSE <<>>

\* [...(product.otherLinks || []), { id: generateId(), title: "", url: "" }]
LinksWithNew(links, linkId) ==
    Append(links, [id |-> linkId, title |-> "", url |-> ""])

handleAddOtherLink(productId, linkId) ==
    /\ CanCall
    /\ user # NoUser => (PanelShown /\ productId = selectedId)
    /\ nOps' = nOps + 1
    /\ IF user = NoUser \/ FindIndex(products, productId) = 0 THEN NoStateChange
       ELSE UpdateProduct(productId, "otherLinks",
                LinksWithNew(OtherLinksOrEmpty(products[FindIndex(products, productId)]),
                             linkId),
                "addLink")

\* links.map((link) => link.id === linkId ? { ...link, [field]: value } : link)
LinksWithUpdate(links, linkId, field, value) ==
    [i \in 1..Len(links) |->
        IF links[i].id = linkId THEN WithField(links[i], field, value) ELSE links[i]]

handleUpdateOtherLink(productId, linkId, field, value) ==
    /\ CanCall
    /\ user # NoUser =>
          /\ PanelShown /\ productId = selectedId
          /\ \E i \in DOMAIN OtherLinksOrEmpty(products[selectedProduct]) :
                OtherLinksOrEmpty(products[selectedProduct])[i].id = linkId
    /\ nOps' = nOps + 1
    /\ IF user = NoUser \/ FindIndex(products, productId) = 0 THEN NoStateChange
       ELSE UpdateProduct(productId, "otherLinks",
                LinksWithUpdate(OtherLinksOrEmpty(products[FindIndex(products, productId)]),
                                linkId, field, value),
                "updateLink")

\* (variant: the link is addressed by its position in the list)
LinksWithout_ByPosition(links, linkId) ==
    IF linkId \in DOMAIN links
    THEN [i \in 1..(Len(links) - 1) |-> IF i < linkId THEN links[i] ELSE links[i + 1]]
    ELSE links

\* links.filter((link) => link.id !== linkId)
RECURSIVE LinksWithout(_, _)
LinksWithout(links, linkId) ==
    IF links = <<>> THEN <<>>
    ELSE IF Head(links).id = linkId THEN LinksWithout(Tail(links), linkId)
    ELSE <<Head(links)>> \o LinksWithout(Tail(links), linkId)

handleDeleteOtherLink(productId, linkId) ==
    /\ CanCall
    /\ user # NoUser =>
          /\ PanelShown /\ productId = selectedId
          /\ \E i \in DOMAIN OtherLinksOrEmpty(products[selectedProduct]) :
                OtherLinksOrEmpty(products[selectedProduct])[i].id = linkId
    /\ nOps' = nOps + 1
    /\ IF user = NoUser \/ FindIndex(products, productId) = 0 THEN NoStateChange
       ELSE UpdateProduct(productId, "otherLinks",
                LinksWithout(OtherLinksOrEmpty(products[FindIndex(products, productId)]),
                             linkId),
                "deleteLink")

DeleteWrite(uid, id) ==
    [uid |-> uid, key |-> id, kind |-> "delete", data |-> <<>>, op |-> "deleteProduct"]

\* (variant: the handler also drops the product from the local list)
handleDeleteProduct_Optimistic(id) ==
    /\ CanCall
    /\ user # NoUser => (PanelShown /\ id = selectedId)
    /\ nOps' = nOps + 1
    /\ IF user = NoUser THEN NoStateChange
       ELSE /\ writes' = Append(writes, DeleteWrite(user, id))
            /\ products' = SelectSeq(products, LAMBDA p : p.id # id)
            /\ UNCHANGED <<user, authChecking, searchQuery, loading, selectedId, subs, remote,
                           localStorage, lastSnapshot, migration>>

handleDeleteProduct(id) ==
    /\ CanCall
    /\ user # NoUser => (PanelShown /\ id = selectedId)
    /\ nOps' = nOps + 1
    /\ IF user = NoUser THEN NoStateChange
       ELSE /\ writes' = Append(writes, DeleteWrite(user, id))
            /\ AppUnchanged

\* What runs after the awaited write: setSelectedId(newId) after a create,
\* setSelectedId(null) after a delete; the update handlers do nothing more.
\* A state setter of an unmounted component has no effect.
SelectedAfterWrite(w, sel) ==
    CASE w.op = "create" -> w.key
      [] w.op = "deleteProduct" -> NoId
      [] OTHER -> sel

\* The store applies the oldest pending write and resolves its promise.
WriteSucceeds ==
    /\ writes # <<>>
    /\ LET w == Head(writes)
           sel == IF Unmounted THEN selectedId ELSE SelectedAfterWrite(w, selectedId)
       IN /\ remote' = [remote EXCEPT ![w.uid] = ApplyWrite(@, w)]
          /\ writes' = Tail(writes)
          /\ selectedId' = sel
          /\ subs' = AfterRender(subs, user, authChecking, loading, products, sel, searchQuery)
    /\ UNCHANGED <<user, authChecking, searchQuery, loading, products, localStorage,
                   lastSnapshot, migration, nOps>>

\* The store rejects the oldest pending write: the handler's catch logs it.
WriteFails ==
    /\ writes # <<>>
    /\ writes' = Tail(writes)
    /\ UNCHANGED <<user, authChecking, searchQuery, loading, products, selectedId, subs, remote,
                   localStorage, lastSnapshot, migration, nOps>>

\* ------------------------------------------------------------ list and panel
\* onClick={() => setSelectedId(product.id)} on a row of the list
SelectProduct(id) ==
    /\ ~Unmounted
    /\ MainViewShown(user, authChecking, loading)
    /\ FindIndex(products, id) # 0
    /\ selectedId' = id
    /\ subs' = AfterRender(subs, user, authChecking, loading, products, id, searchQuery)
    /\ UNCHANGED <<user, authChecking, searchQuery, loading, products, remote, localStorage,
                   writes, lastSnapshot, migration, nOps>>

\* onClick={() => setSelectedId(null)} on the panel's close button
ClosePanel ==
    /\ ~Unmounted
    /\ PanelShown
    /\ selectedId' = NoId
    /\ UNCHANGED <<user, authChecking, searchQuery, loading, products, subs, remote, localStorage,
                   writes, lastSnapshot, migration, nOps>>

\* onChange={(e) => setSearchQuery(e.target.value)} on the search box
SetSearchQuery(text) ==
    /\ ~Unmounted
    /\ MainViewShown(user, authChecking, loading)
    /\ text # searchQuery
    /\ searchQuery' = text
    /\ subs' = AfterRender(subs, user, authChecking, loading, products, selectedId, text)
    /\ UNCHANGED <<user, authChecking, loading, products, selectedId, remote,
                   localStorage, writes, lastSnapshot, migration, nOps>>

\* ------------------------------------------------------------ specification
Init ==
    /\ user = NoUser
    /\ authChecking = TRUE
    /\ loading = TRUE
    /\ products = <<>>
    /\ selectedId = NoId
    /\ searchQuery = <<>>
    /\ subs = {}
    /\ remote = [u \in Users |-> EmptyCollection]
    /\ localStorage \in CacheInputs
    /\ writes = <<>>
    /\ lastSnapshot = [received |-> FALSE, uid |-> NoUser, docs |-> <<>>]
    /\ migration = [done |-> FALSE, uid |-> NoUser, records |-> <<>>]
    /\ nOps = 0

\* The handlers' calls, with what the controls can pass.
CallProductHandler ==
    \/ \E newId \in GeneratedIds(ProductIds), t \in 1..MaxNow : handleAddProduct(newId, t)
    \/ \E id \in ProductIds, fv \in FieldInputs : handleUpdateProduct(id, fv[1], fv[2])
    \/ \E id \in ProductIds : handleDeleteProduct(id)

CallCompetitorHandler ==
    \E id \in ProductIds, i \in 0..2, fv \in CompetitorFieldInputs :
        handleUpdateCompetitor(id, i, fv[1], fv[2])

CallLinkHandler ==
    \/ \E id \in ProductIds, l \in GeneratedIds(LinkIds) : handleAddOtherLink(id, l)
    \/ \E id \in ProductIds, l \in LinkIds, fv \in LinkFieldInputs :
          handleUpdateOtherLink(id, l, fv[1], fv[2])
    \/ \E id \in ProductIds, l \in LinkIds : handleDeleteOtherLink(id, l)

StoreAndPanel ==
    \/ \E u \in Users : OnSnapshot(u)
    \/ \E u \in Users : OnSnapshotError(u)
    \/ WriteSucceeds
    \/ WriteFails
    \/ \E id \in ProductIds : SelectProduct(id)
    \/ ClosePanel

\* One account signs in and out on the device; every handler is used.
Next ==
    \/ \E u \in {FirstUser, NoUser} : AuthStateChanged(u)
    \/ CallProductHandler
    \/ CallCompetitorHandler
    \/ CallLinkHandler
    \/ StoreAndPanel

Spec == Init /\ [][Next]_vars

\* Every account signs in and out on the device; products are created,
\* renamed and deleted.
NextSessions ==
    \/ \E u \in Users \cup {NoUser} : AuthStateChanged(u)
    \/ CallProductHandler
    \/ StoreAndPanel

SpecSessions == Init /\ [][NextSessions]_vars

\* A signed-in session whose listener has not delivered yet, over every
\* collection of up to MaxSortDocs documents created at SortTimes or migrated
\* from the cache (no createdAt).
SortTimes == {100, 300}
Missing == 0

SortDoc(k, t) ==
    IF t = Missing THEN CachedProduct(k, "Widget", <<>>) ELSE NewProduct(k, t)

SortCollections ==
    UNION { { [k \in K |-> SortDoc(k, v[k])] : v \in [K -> SortTimes \cup {Missing}] } :
            K \in SUBSET (1..MaxSortDocs) }

InitSort ==
    /\ user = FirstUser
    /\ authChecking = FALSE
    /\ loading = TRUE
    /\ products = <<>>
    /\ selectedId = NoId
    /\ searchQuery = <<>>
    /\ subs = {FirstUser}
    /\ \E coll \in SortCollections :
          remote = [u \in Users |-> IF u = FirstUser THEN coll ELSE EmptyCollection]
    /\ localStorage = NoItem
    /\ writes = <<>>
    /\ lastSnapshot = [received |-> FALSE, uid |-> NoUser, docs |-> <<>>]
    /\ migration = [done |-> FALSE, uid |-> NoUser, records |-> <<>>]
    /\ nOps = 0

NextSort == \E u \in Users : OnSnapshot(u)

SpecSort == InitSort /\ [][NextSort]_vars

\* A signed-in session whose listener has not delivered yet, over every
\* collection of up to MaxId products named and rated as below; then the
\* search box is typed into.
TextWidgetPro == <<"W", "i", "d", "g", "e", "t", " ", "P", "r", "o">>
TextGadget == <<"G", "a", "d", "g", "e", "t">>
TextPending == <<"P", "e", "n", "d", "i", "n", "g">>
TextApproved == <<"A", "p", "p", "r", "o", "v", "e", "d">>

FilterNames == {TextWidgetPro, TextGadget, <<>>}
FilterStatuses == {TextPending, TextApproved}
SearchTexts ==
    { <<>>, <<"p", "r", "o">>, <<"P", "R", "O">>,
      <<"a", "p", "p", "r", "o", "v", "e", "d">>, <<"d", "g">>,
      <<"t", " ", "p">>, <<"g", "a", "d", "g", "e", "t", "s">> }

FilterDoc(k, name, status, t) ==
    [NewProduct(k, t) EXCEPT !.name = name, !.status = status]

FilterCollections ==
    UNION { { [k \in K |-> FilterDoc(k, v[k][1], v[k][2], v[k][3])] :
                v \in [K -> FilterNames \X FilterStatuses \X (1..MaxNow)] } :
            K \in SUBSET ProductIds }

InitFilter ==
    /\ user = FirstUser
    /\ authChecking = FALSE
    /\ loading = TRUE
    /\ products = <<>>
    /\ selectedId = NoId
    /\ searchQuery = <<>>
    /\ subs = {FirstUser}
    /\ \E coll \in FilterCollections :
          remote = [u \in Users |-> IF u = FirstUser THEN coll ELSE EmptyCollection]
    /\ localStorage = NoItem
    /\ writes = <<>>
    /\ lastSnapshot = [received |-> FALSE, uid |-> NoUser, docs |-> <<>>]
    /\ migration = [done |-> FALSE, uid |-> NoUser, records |-> <<>>]
    /\ nOps = 0

NextFilter ==
    \/ \E u \in Users : OnSnapshot(u)
    \/ \E text \in SearchTexts : SetSearchQuery(text)

SpecFilter == InitFilter /\ [][NextFilter]_vars

\* A signed-in session whose listener has not delivered yet, over one product
\* with every pair of the amounts below as price and cost; the product is
\* listed and then opened in the panel.
AmountTexts ==
    { <<>>, <<"a", "b", "c">>, <<"2", "a">>, <<"-", "1">>, <<"0">>, <<"1">>,
      <<"2">>, <<"3">>, <<"9">>, <<"1", "0">> }

RoasDoc(k, price, cogs) ==
    [NewProduct(k, 1) EXCEPT !.name = TextGadget, !.status = TextPending,
                             !.price = price, !.cogs = cogs]

InitRoas ==
    /\ user = FirstUser
    /\ authChecking = FALSE
    /\ loading = TRUE
    /\ products = <<>>
    /\ selectedId = NoId
    /\ searchQuery = <<>>
    /\ subs = {FirstUser}
    /\ \E price \in AmountTexts, cogs \in AmountTexts :
          remote = [u \in Users |->
                      IF u = FirstUser THEN [k \in {1} |-> RoasDoc(k, price, cogs)]
                      ELSE EmptyCollection]
    /\ localStorage = NoItem
    /\ writes = <<>>
    /\ lastSnapshot = [received |-> FALSE, uid |-> NoUser, docs |-> <<>>]
    /\ migration = [done |-> FALSE, uid |-> NoUser, records |-> <<>>]
    /\ nOps = 0

NextRoas ==
    \/ \E u \in Users : OnSnapshot(u)
    \/ \E id \in ProductIds : SelectProduct(id)
    \/ ClosePanel

SpecRoas == InitRoas /\ [][NextRoas]_vars

\* ------------------------------------------------------------ properties
\* (x.createdAt || 0) of a projected record
SortKey(p) == IF "createdAt" \in DOMAIN p THEN p.createdAt ELSE 0

SortedByCreatedAtDesc(prods) ==
    \A i \in 1..(Len(prods) - 1) : SortKey(prods[i]) >= SortKey(prods[i + 1])

\* prods holds, for each document of docs and for nothing else, the document's
\* body with its id set to the document's key, most recent first.
IsProjectionOf(prods, docs) ==
    /\ Len(prods) = Len(docs)
    /\ \A i \in 1..Len(docs) :
          \E j \in 1..Len(prods) :
             /\ prods[j].id = docs[i].key
             /\ DOMAIN prods[j] = DOMAIN docs[i].data \cup {"id"}
             /\ \A f \in DOMAIN docs[i].data \ {"id"} : prods[j][f] = docs[i].data[f]
    /\ SortedByCreatedAtDesc(prods)

\* C1: the local collection is always the projection of the last snapshot a
\* listener delivered (each document's body with its id set to the key, sorted),
\* or empty if none was delivered; no handler and no settled write changes it.
C1_ProductsAreLastSnapshot ==
    IF lastSnapshot.received
    THEN IsProjectionOf(products, lastSnapshot.docs)
    ELSE products = <<>>

\* A write was applied after the last snapshot and the list still shows the snapshot.
C1_Witness ==
    /\ lastSnapshot.received
    /\ lastSnapshot.uid = FirstUser
    /\ Len(products) = 2
    /\ nOps = 2
    /\ writes = <<>>
    /\ SnapshotDocs(remote[FirstUser]) # lastSnapshot.docs

MigrationSettled ==
    migration.done /\ \A k \in DOMAIN writes : writes[k].op # "migrate"

\* C2: once a migration's writes have settled (and no handler has been called),
\* the remote collection holds every cached record under its id and the cache
\* is empty.
C2_MigrationKeepsEveryRecord ==
    (MigrationSettled /\ nOps = 0) =>
        /\ ~Truthy(localStorage)
        /\ \A i \in DOMAIN migration.records :
              LET r == migration.records[i]
              IN /\ r.id \in DOMAIN remote[migration.uid]
                 /\ remote[migration.uid][r.id] = r

MigrationTriggered(uid) ==
    DOMAIN remote[uid] = {} /\ localStorage.kind = "json"

\* C3: a snapshot callback that migrates issues exactly one create-or-overwrite
\* write per cached record, at the record's id in the signed-in user's
\* collection, and leaves the cache empty; the cache stays empty whatever
\* happens to the writes, and a rejected write is not issued again.
C3_MigrationWritesThenClears ==
    [][ /\ \A u \in Users :
             (OnSnapshot(u) /\ MigrationTriggered(u)) =>
                 /\ u = user
                 /\ Len(writes') = Len(writes) + Len(localStorage.data)
                 /\ SubSeq(writes', 1, Len(writes)) = writes
                 /\ \A i \in DOMAIN localStorage.data :
                       LET w == writes'[Len(writes) + i]
                       IN /\ w.uid = u
                          /\ w.key = localStorage.data[i].id
                          /\ w.kind = "set"
                          /\ w.data = localStorage.data[i]
                 /\ localStorage'.kind = "null"
        /\ migration.done => (localStorage.kind = "null" /\ localStorage'.kind = "null")
        /\ WriteFails => (writes' = Tail(writes) /\ remote' = remote)
      ]_vars

\* The cache was migrated, a write of it was rejected, and the cache is empty.
C3_Witness ==
    /\ MigrationSettled
    /\ Len(migration.records) = 2
    /\ localStorage.kind = "null"
    /\ DOMAIN remote[migration.uid] = {2}
    /\ nOps = 0

RECURSIVE CountMigrate(_)
CountMigrate(ws) ==
    IF ws = <<>> THEN 0
    ELSE (IF Head(ws).op = "migrate" THEN 1 ELSE 0) + CountMigrate(Tail(ws))

\* C4: the cache changes, and migration writes are issued, only in a snapshot
\* callback whose snapshot has no record and only if the cache slot holds a
\* non-empty string; a snapshot with records leaves the cache alone, and after
\* the cache has been cleared no migration write is ever issued again.
C4_MigrationOnlyOnEmptySnapshot ==
    [][ /\ (localStorage' # localStorage \/ CountMigrate(writes') > CountMigrate(writes)) =>
             /\ \E u \in Users : OnSnapshot(u) /\ DOMAIN remote[u] = {}
             /\ lastSnapshot'.docs = <<>>
             /\ localStorage.kind = "json"
             /\ ~migration.done
        /\ \A u \in Users :
             (OnSnapshot(u) /\ DOMAIN remote[u] # {}) =>
                 (localStorage' = localStorage /\ writes' = writes)
      ]_vars

\* A snapshot with a record was handled while the cache was still there.
C4_Witness ==
    /\ lastSnapshot.received
    /\ Len(lastSnapshot.docs) >= 1
    /\ localStorage.kind = "json"
    /\ Len(localStorage.data) = 2

\* C5: at most one listener is active, it is the signed-in user's, and none is
\* active when nobody is signed in.
C5_OneSubscriptionOfCurrentUser ==
    /\ Cardinality(subs) <= 1
    /\ subs \subseteq {user}
    /\ user = NoUser => subs = {}

\* The second account's listener is active after the first account's delivered.
C5_Witness ==
    /\ user = "u2"
    /\ subs = {"u2"}
    /\ lastSnapshot.uid = "u1"
    /\ products # <<>>

\* C6: when the delete of product d succeeds, the selection becomes none if d
\* was selected and is left as it was otherwise.
C6_DeleteClearsOnlyOwnSelection ==
    [][ (WriteSucceeds /\ Head(writes).op = "deleteProduct" /\ ~Unmounted) =>
            selectedId' = IF selectedId = Head(writes).key THEN NoId ELSE selectedId
      ]_vars

\* The write a handler has just handed to the store.
LastWrite(ws) == ws[Len(ws)]

IssuesMerge(productId, field) ==
    /\ Len(writes') = Len(writes) + 1
    /\ SubSeq(writes', 1, Len(writes)) = writes
    /\ LastWrite(writes').uid = user
    /\ LastWrite(writes').key = productId
    /\ LastWrite(writes').kind = "merge"
    /\ DOMAIN LastWrite(writes').data = {field}

\* C7: updating field fv of competitor i of a listed product writes a competitors
\* sequence of the same length whose other elements are the current ones, in
\* place, and whose element i differs from the current one in that field only.
C7_CompetitorUpdateTouchesOneField ==
    [][ \A pid \in ProductIds, i \in 0..2, fv \in CompetitorFieldInputs :
          (handleUpdateCompetitor(pid, i, fv[1], fv[2])
              /\ user # NoUser /\ FindIndex(products, pid) # 0) =>
             LET old == products[FindIndex(products, pid)].competitors
                 new == LastWrite(writes').data.competitors
             IN /\ IssuesMerge(pid, "competitors")
                /\ Len(new) = Len(old)
                /\ \A j \in DOMAIN old : j # i + 1 => new[j] = old[j]
                /\ DOMAIN new[i + 1] = DOMAIN old[i + 1]
                /\ new[i + 1][fv[1]] = fv[2]
                /\ \A f \in DOMAIN old[i + 1] : f # fv[1] => new[i + 1][f] = old[i + 1][f]
      ]_vars

\* A second edit of the same competitor is on its way and carries the first.
C7_Witness ==
    \E k \in DOMAIN writes :
       /\ writes[k].op = "updateCompetitor"
       /\ writes[k].data.competitors[1].brand = "Acme"
       /\ writes[k].data.competitors[1].traffic = "9k"
       /\ writes[k].data.competitors[2] = INITIAL_COMPETITOR

CurrentLinks(pid) ==
    LET p == products[FindIndex(products, pid)]
    IN IF "otherLinks" \in DOMAIN p THEN p.otherLinks ELSE <<>>

\* C9: delete link writes the current local otherLinks without the links whose
\* id is linkId (the others unchanged, in order); update link changes only the
\* given field of the links whose id matches; add link appends one link with
\* empty title and url.
C9_LinkOperations ==
    [][ \A pid \in ProductIds, l \in LinkIds :
          /\ (handleDeleteOtherLink(pid, l)
                 /\ user # NoUser /\ FindIndex(products, pid) # 0) =>
                /\ IssuesMerge(pid, "otherLinks")
                /\ LastWrite(writes').data.otherLinks =
                      SelectSeq(CurrentLinks(pid), LAMBDA x : x.id # l)
          /\ (handleAddOtherLink(pid, l)
                 /\ user # NoUser /\ FindIndex(products, pid) # 0) =>
                /\ IssuesMerge(pid, "otherLinks")
                /\ LastWrite(writes').data.otherLinks =
                      CurrentLinks(pid) \o <<[id |-> l, title |-> "", url |-> ""]>>
          /\ \A fv \in LinkFieldInputs :
                (handleUpdateOtherLink(pid, l, fv[1], fv[2])
                    /\ user # NoUser /\ FindIndex(products, pid) # 0) =>
                   LET old == CurrentLinks(pid)
                       new == LastWrite(writes').data.otherLinks
                   IN /\ IssuesMerge(pid, "otherLinks")
                      /\ Len(new) = Len(old)
                      /\ \A j \in DOMAIN old :
                            IF old[j].id = l
                            THEN /\ DOMAIN new[j] = DOMAIN old[j]
                                 /\ new[j][fv[1]] = fv[2]
                                 /\ \A f \in DOMAIN old[j] :
                                       f # fv[1] => new[j][f] = old[j][f]
                            ELSE new[j] = old[j]
      ]_vars

\* The middle link of three is being deleted: the write carries the other two.
C9_Witness ==
    \E k \in DOMAIN writes :
       /\ writes[k].op = "deleteLink"
       /\ writes[k].data.otherLinks = <<CachedLinks[1], CachedLinks[3]>>

\* C10: after a snapshot the list is ordered by createdAt, most recent first,
\* a missing createdAt counting as 0; documents with createdAt 100, missing, 300
\* come out in the order 300, 100, missing.
C10_SortedByCreatedAtDesc ==
    lastSnapshot.received =>
        /\ SortedByCreatedAtDesc(products)
        /\ LET ds == lastSnapshot.docs
           IN (/\ Len(ds) = 3
               /\ SortKey(ds[1].data) = 100
               /\ "createdAt" \notin DOMAIN ds[2].data
               /\ SortKey(ds[3].data) = 300) =>
                  /\ products[1].id = ds[3].key /\ SortKey(products[1]) = 300
                  /\ products[2].id = ds[1].key /\ SortKey(products[2]) = 100
                  /\ products[3].id = ds[2].key /\ "createdAt" \notin DOMAIN products[3]

C10_Witness ==
    /\ lastSnapshot.received
    /\ Len(products) = 3
    /\ SortKey(lastSnapshot.docs[1].data) = 100
    /\ "createdAt" \notin DOMAIN lastSnapshot.docs[2].data
    /\ SortKey(lastSnapshot.docs[3].data) = 300
    /\ products[1].id = 3

\* The document keys of a collection do not move: a document that is there
\* before and after a step is stored with the same id field.
KeysKeepTheirId(coll, coll2) ==
    \A k \in DOMAIN coll \cap DOMAIN coll2 :
       ("id" \in DOMAIN coll[k] /\ "id" \in DOMAIN coll2[k]) => coll2[k].id = coll[k].id

\* C11: the id that create generates differs from the key of every document of
\* the user's remote collection, so the write of a create never lands on an
\* existing document; and no step moves a stored document to another id.
C11_CreateIdIsFresh ==
    [][ /\ \A newId \in ProductIds, t \in 1..MaxNow :
             (handleAddProduct(newId, t) /\ user # NoUser) =>
                newId \notin DOMAIN remote[user]
        /\ (WriteSucceeds /\ Head(writes).op = "create") =>
                Head(writes).key \notin DOMAIN remote[Head(writes).uid]
        /\ \A u \in Users : KeysKeepTheirId(remote[u], remote'[u])
      ]_vars

EmptyCompetitor(c) ==
    /\ DOMAIN c = {"brand", "adLink", "storeLink", "adsCount", "traffic"}
    /\ \A f \in DOMAIN c : c[f] = ""

\* C12: with a user signed in, create hands the store one create-or-overwrite
\* write at the generated id whose payload is a product with that id, every
\* default (empty name, status Pending, three empty competitors, no link,
\* hasContent false) and createdAt the time of the call, and leaves the
\* selection alone; the selection becomes the new id when the write succeeds
\* and stays as it is when the write is rejected.
C12_CreateWritesDefaultsThenSelects ==
    [][ /\ \A newId \in ProductIds, t \in 1..MaxNow :
             (handleAddProduct(newId, t) /\ user # NoUser) =>
                LET w == LastWrite(writes')
                IN /\ Len(writes') = Len(writes) + 1
                   /\ SubSeq(writes', 1, Len(writes)) = writes
                   /\ w.uid = user /\ w.key = newId /\ w.kind = "set"
                   /\ w.data.id = newId
                   /\ w.data.createdAt = t
                   /\ w.data.name = "" /\ w.data.status = "Pending"
                   /\ w.data.cogs = "" /\ w.data.price = ""
                   /\ Len(w.data.competitors) = 3
                   /\ \A i \in 1..3 : EmptyCompetitor(w.data.competitors[i])
                   /\ w.data.otherLinks = <<>>
                   /\ w.data.hasContent = FALSE
                   /\ selectedId' = selectedId
                   /\ remote' = remote /\ products' = products
        /\ (WriteSucceeds /\ Head(writes).op = "create" /\ ~Unmounted) =>
                /\ selectedId' = Head(writes).key
                /\ remote'[Head(writes).uid][Head(writes).key] = Head(writes).data
        /\ WriteFails => (selectedId' = selectedId /\ remote' = remote)
      ]_vars

\* A create has succeeded: its id is selected and its document, all defaults,
\* is stored, while the list does not show it yet.
C12_Witness ==
    /\ selectedId # NoId
    /\ FindIndex(products, selectedId) = 0
    /\ selectedId \in DOMAIN remote[FirstUser]
    /\ \E t \in 1..MaxNow : remote[FirstUser][selectedId] = NewProduct(selectedId, t)
    /\ user = FirstUser

\* C13: the listener's error callback ends the loading state and leaves the
\* local collection, the selection, the remote collections and the pending
\* writes as they were; it does not subscribe again.
C13_SubscriptionErrorEndsLoading ==
    [][ \A u \in Users :
          OnSnapshotError(u) =>
             /\ loading' = FALSE
             /\ products' = products
             /\ selectedId' = selectedId
             /\ writes' = writes
             /\ remote' = remote
             /\ localStorage' = localStorage
             /\ u \notin subs'
      ]_vars

\* The listener failed after it had delivered two products: they are still
\* listed, nothing is loading and nothing is subscribed.
C13_Witness ==
    /\ user = FirstUser
    /\ ~Unmounted
    /\ subs = {}
    /\ ~loading
    /\ Len(products) = 2

\* Some handler of the gateway is called.
GatewayCall ==
    \/ CallProductHandler
    \/ CallCompetitorHandler
    \/ CallLinkHandler

\* C14: a handler (create, update field, update competitor field, add, update
\* and delete link, delete product) called while nobody is signed in hands
\* nothing to the store and leaves the remote collections, the local
\* collection and the selection as they were.
C14_NoSessionNoEffect ==
    [][ (GatewayCall /\ user = NoUser) =>
            /\ writes' = writes
            /\ remote' = remote
            /\ products' = products
            /\ selectedId' = selectedId
            /\ localStorage' = localStorage
      ]_vars

\* Two handlers were called before any session was reported: nothing was
\* written and nothing is selected.
C14_Witness ==
    /\ authChecking
    /\ user = NoUser
    /\ nOps = 2
    /\ writes = <<>>
    /\ selectedId = NoId

\* Two characters are the same letter, whatever their case.
SameLetter(a, b) ==
    \/ a = b
    \/ \E i \in DOMAIN UpperCaseLetters :
          {a, b} = {UpperCaseLetters[i], LowerCaseLetters[i]}

\* part occurs in text at some position, case apart.
ContainsFolded(text, part) ==
    \E i \in 0..Len(text) :
       /\ i + Len(part) <= Len(text)
       /\ \A k \in 1..Len(part) : SameLetter(text[i + k], part[k])

MatchesQuery(p) ==
    ContainsFolded(p.name, searchQuery) \/ ContainsFolded(p.status, searchQuery)

\* C15: the filtered list is the local collection restricted, in its order, to
\* the products whose name or status holds the search text, case apart; with
\* an empty search text it is the whole collection.
C15_FilterIsMatchingSubsequence ==
    /\ filteredProducts = SelectSeq(products, MatchesQuery)
    /\ searchQuery = <<>> => filteredProducts = products

\* An upper-case search text keeps the second of two products only.
C15_Witness ==
    /\ searchQuery = <<"P", "R", "O">>
    /\ Len(products) = 2
    /\ filteredProducts = <<products[2]>>
    /\ products[2].name = TextWidgetPro

\* The collection of the scenario: "Widget Pro" (Pending), then "Gadget" (Approved).
ScenarioCollection ==
    /\ Len(products) = 2
    /\ products[1].name = TextWidgetPro /\ products[1].status = TextPending
    /\ products[2].name = TextGadget /\ products[2].status = TextApproved

\* C16 (as stated): on the scenario's collection "pro" yields the first
\* product only, "approved" the second only, the empty text both in order.
C16_FilterScenario ==
    ScenarioCollection =>
        /\ searchQuery = <<"p", "r", "o">> => filteredProducts = <<products[1]>>
        /\ searchQuery = <<"a", "p", "p", "r", "o", "v", "e", "d">> =>
              filteredProducts = <<products[2]>>
        /\ searchQuery = <<>> => filteredProducts = products

\* C16 (amended): on the scenario's collection "pro" yields both products in
\* order (the status Approved holds "pro"), "approved" the second only, the
\* empty text both in order.
C16_FilterScenarioAmended ==
    ScenarioCollection =>
        /\ searchQuery = <<"p", "r", "o">> => filteredProducts = products
        /\ searchQuery = <<"a", "p", "p", "r", "o", "v", "e", "d">> =>
              filteredProducts = <<products[2]>>
        /\ searchQuery = <<>> => filteredProducts = products

\* "pro" is typed over the scenario's collection.
C16_Witness ==
    /\ ScenarioCollection
    /\ searchQuery = <<"p", "r", "o">>
    /\ Len(filteredProducts) = 2

\* The text is a whole number in decimal, with or without a minus sign.
IsNumberText(text) ==
    LET digits == IF text # <<>> /\ Head(text) = "-" THEN Tail(text) ELSE text
    IN /\ digits # <<>>
       /\ \A i \in DOMAIN digits : IsDigit(digits[i])

\* The text starts with a whole number.
HasLeadingNumber(text) ==
    \/ text # <<>> /\ IsDigit(text[1])
    \/ Len(text) >= 2 /\ text[1] \in {"-", "+"} /\ IsDigit(text[2])

\* n hundredths is p / margin rounded to two places (margin > 0).
IsRounded(n, p, margin) ==
    /\ 200 * p - 2 * n * margin <= margin
    /\ 2 * n * margin - 200 * p <= margin

\* C17 (as stated): the result is null exactly when the price or the cost is
\* empty or not a number; it is the number 0 when both are numbers and the
\* price is at most the cost; otherwise it is price / (price - cost) rounded to
\* two places, a positive ratio.
C17_RoasThreeOutcomes ==
    \A i \in DOMAIN products :
       LET price == products[i].price
           cogs == products[i].cogs
           r == calculateRoas(price, cogs)
           p == parseFloat(price).value
           c == parseFloat(cogs).value
       IN /\ (r = RoasNull) <=> (~IsNumberText(price) \/ ~IsNumberText(cogs))
          /\ (IsNumberText(price) /\ IsNumberText(cogs) /\ p <= c) => r = RoasZero
          /\ (IsNumberText(price) /\ IsNumberText(cogs) /\ p > c) =>
                /\ r.kind = "string"
                /\ r.hundredths > 0
                /\ IsRounded(r.hundredths, p, p - c)

\* C17 (amended): the result is null exactly when the price or the cost does
\* not start with a number; it is the number 0 when both do and the price is
\* at most the cost; otherwise it is the text of price / (price - cost) rounded
\* to two places, which is at least 1.00 when the cost is not negative and is
\* 0.00 or negative when the price is not positive.
C17_RoasOutcomes ==
    \A i \in DOMAIN products :
       LET price == products[i].price
           cogs == products[i].cogs
           r == calculateRoas(price, cogs)
           p == parseFloat(price).value
           c == parseFloat(cogs).value
       IN /\ (r = RoasNull) <=> (~HasLeadingNumber(price) \/ ~HasLeadingNumber(cogs))
          /\ (HasLeadingNumber(price) /\ HasLeadingNumber(cogs) /\ p <= c) => r = RoasZero
          /\ (HasLeadingNumber(price) /\ HasLeadingNumber(cogs) /\ p > c) =>
                /\ r.kind = "string"
                /\ IsRounded(r.hundredths, p, p - c)
                /\ c >= 0 => r.hundredths >= 100
                /\ p <= 0 => r.hundredths <= 0

\* The listed product has price 9 and cost 1: the ratio 1.125 is shown as 1.13.
C17_Witness ==
    /\ Len(products) = 1
    /\ products[1].price = <<"9">>
    /\ products[1].cogs = <<"1">>
    /\ calculateRoas(products[1].price, products[1].cogs) = RoasText(113)

\* What the claim asks of a display of the result r: "Loss" for the number 0,
\* the placeholder for null, and a positive ratio as itself, marked good
\* (emerald) up to 1.50 and bad (rose) above.
DisplaysOutcome(shown, r, placeholder) ==
    /\ r = RoasZero => shown.shown = "Loss"
    /\ r = RoasNull => shown.shown = placeholder
    /\ (r.kind = "string" /\ r.hundredths > 0) =>
          /\ shown.shown = "ratio"
          /\ shown.hundredths = r.hundredths
          /\ shown.colour = IF r.hundredths <= 150 THEN "emerald" ELSE "rose"

\* C18: every row of the list, and the panel of the selected product, display
\* the three outcomes of calculateRoas apart: "Loss" for the result 0, the
\* placeholder for no result, the ratio (marked good or bad) otherwise.
C18_RoasDisplayTellsOutcomesApart ==
    MainViewShown(user, authChecking, loading) =>
        /\ \A i \in DOMAIN filteredProducts :
              DisplaysOutcome(RoasCell(filteredProducts[i]),
                              calculateRoas(filteredProducts[i].price,
                                            filteredProducts[i].cogs), "-")
        /\ PanelShown =>
              DisplaysOutcome(RoasPanel(products[selectedProduct]),
                              calculateRoas(products[selectedProduct].price,
                                            products[selectedProduct].cogs), "--")

\* C19: whenever the list is shown to the signed-in user, the records of the
\* local collection (and so the selected product) come from a snapshot of that
\* user's own remote collection, also after another user has signed in and
\* before that user's first snapshot.
C19_UserSeesOnlyOwnRecords ==
    (MainViewShown(user, authChecking, loading) /\ ~Unmounted /\ products # <<>>) =>
        /\ lastSnapshot.received
        /\ lastSnapshot.uid = user
        /\ IsProjectionOf(products, lastSnapshot.docs)

\* The places (element, field) where two competitors sequences differ.
CompetitorDifferences(old, new) ==
    { jf \in (DOMAIN old) \X (DOMAIN INITIAL_COMPETITOR) :
         new[jf[1]][jf[2]] # old[jf[1]][jf[2]] }

\* C20: no edit of the session is lost to a later one. When the write of an
\* add-link call is applied, every link the remote document holds (those of the
\* earlier calls included) is still there afterwards; when the write of a
\* competitor edit is applied, the remote competitors change in the one field
\* of the one competitor that was edited and nowhere else.
C20_NoEditLost ==
    [][ (WriteSucceeds /\ Head(writes).key \in DOMAIN remote[Head(writes).uid]) =>
           LET w == Head(writes)
               old == remote[w.uid][w.key]
               new == remote'[w.uid][w.key]
           IN /\ (w.op = "addLink" /\ "otherLinks" \in DOMAIN old) =>
                    \A i \in DOMAIN old.otherLinks :
                       \E j \in DOMAIN new.otherLinks :
                          new.otherLinks[j] = old.otherLinks[i]
              /\ (w.op = "updateCompetitor" /\ "competitors" \in DOMAIN old) =>
                    /\ Len(new.competitors) = Len(old.competitors)
                    /\ Cardinality(CompetitorDifferences(old.competitors,
                                                         new.competitors)) <= 1
      ]_vars

\* The operations that edit a product that is there: update field, update
\* competitor field, add, update and delete link.
EditOps == {"updateField", "updateCompetitor", "addLink", "updateLink", "deleteLink"}

\* The fields every product document is written with by create and by migration.
ProductFields == {"name", "status", "competitors", "otherLinks"}

\* C21: the write of an update (of a field, of a competitor field, of the
\* links) never creates a remote document: applied to an id that has none it
\* leaves the collection's keys as they are, so a deleted product does not come
\* back and every remote document holds the fields of a product.
C21_UpdatesNeverCreate ==
    [][ /\ (WriteSucceeds /\ Head(writes).op \in EditOps) =>
              DOMAIN remote'[Head(writes).uid] = DOMAIN remote[Head(writes).uid]
        /\ \A u \in Users :
              \A k \in DOMAIN remote'[u] : ProductFields \subseteq DOMAIN remote'[u][k]
      ]_vars

====
